---- MODULE Spec2Model ----
(***************************************************************************)
(* Model of control/canonical.py: canonical_form and reachable_form.       *)
(*                                                                         *)
(* Numbers are exact rationals <<num, den>> (den > 0, lowest terms), so    *)
(* "equal within numerical tolerance" becomes exact equality.  A matrix is *)
(* a record [rows, cols, v] with v a sequence of rows.  Arrays live in a   *)
(* heap and system objects hold references, so aliasing between the input *)
(* system and the returned one is expressible.                             *)
(***************************************************************************)
EXTENDS Integers, Sequences, FiniteSets, TLC

\* ------------------------------------------------------------------------
\* Bounds of the input family
\* ------------------------------------------------------------------------
MaxOrder == 2
MaxVal == 1
MaxPorts == 2

\* ------------------------------------------------------------------------
\* Exact rational arithmetic
\* ------------------------------------------------------------------------
Abs(x) == IF x < 0 THEN -x ELSE x

RECURSIVE Gcd(_, _)
Gcd(a, b) == IF b = 0 THEN a ELSE Gcd(b, a % b)

Norm(n, d) ==
    LET g == Gcd(Abs(n), Abs(d))
        s == IF d < 0 THEN -1 ELSE 1
    IN  <<(s * n) \div g, (s * d) \div g>>

Q(n) == <<n, 1>>
RAdd(x, y) == Norm(x[1] * y[2] + y[1] * x[2], x[2] * y[2])
RMul(x, y) == Norm(x[1] * y[1], x[2] * y[2])
RNeg(x) == <<-x[1], x[2]>>
RDiv(x, y) == Norm(x[1] * y[2], x[2] * y[1])

RECURSIVE RSum(_, _)
RSum(f, n) == IF n = 0 THEN Q(0) ELSE RAdd(RSum(f, n - 1), f[n])

\* ------------------------------------------------------------------------
\* Matrices
\* ------------------------------------------------------------------------
Idx(r, c) == (1..r) \X (1..c)

Mat(r, c, f) ==
    [rows |-> r, cols |-> c, v |-> [i \in 1..r |-> [j \in 1..c |-> f[<<i, j>>]]]]

shape(M) == <<M.rows, M.cols>>

zeros(sh) == Mat(sh[1], sh[2], [ij \in Idx(sh[1], sh[2]) |-> Q(0)])

eye(n) == Mat(n, n, [ij \in Idx(n, n) |-> IF ij[1] = ij[2] THEN Q(1) ELSE Q(0)])

\* matrix product (numpy.matrix.__mul__)
MatMul(X, Y) ==
    LET e(i, j) == RSum([k \in 1..X.cols |-> RMul(X.v[i][k], Y.v[k][j])], X.cols)
    IN  Mat(X.rows, Y.cols, [ij \in Idx(X.rows, Y.cols) |-> e(ij[1], ij[2])])

\* in-place element store M[i, j] = x with numpy's zero-based indices
SetItem(M, i, j, x) == [M EXCEPT !.v[i + 1][j + 1] = x]

InBounds(M, i, j) == i < M.rows /\ j < M.cols

hstack(X, Y) ==
    LET e(i, j) == IF j <= X.cols THEN X.v[i][j] ELSE Y.v[i][j - X.cols]
    IN  Mat(X.rows, X.cols + Y.cols,
            [ij \in Idx(X.rows, X.cols + Y.cols) |-> e(ij[1], ij[2])])

\* the matrix left after deleting row i and column j (one-based)
Minor(M, i, j) ==
    LET e(a, b) == M.v[IF a < i THEN a ELSE a + 1][IF b < j THEN b ELSE b + 1]
    IN  Mat(M.rows - 1, M.cols - 1, [ij \in Idx(M.rows - 1, M.cols - 1) |-> e(ij[1], ij[2])])

RECURSIVE Det(_)
Det(M) ==
    IF M.rows = 0 THEN Q(1)
    ELSE RSum([j \in 1..M.cols |->
                 RMul(IF j % 2 = 1 THEN M.v[1][j] ELSE RNeg(M.v[1][j]),
                      Det(Minor(M, 1, j)))], M.cols)

\* the principal submatrix of M on the index set S
RECURSIVE SeqOf(_)
SeqOf(S) ==
    IF S = {} THEN <<>>
    ELSE LET m == CHOOSE x \in S : \A y \in S : x <= y
         IN  <<m>> \o SeqOf(S \ {m})

Principal(M, S) ==
    LET ix == SeqOf(S)
        e(a, b) == M.v[ix[a]][ix[b]]
        k == Cardinality(S)
    IN  Mat(k, k, [ij \in Idx(k, k) |-> e(ij[1], ij[2])])

RECURSIVE RSumSet(_, _)
RSumSet(f, S) ==
    IF S = {} THEN Q(0)
    ELSE LET x == CHOOSE y \in S : TRUE
         IN  RAdd(f[x], RSumSet(f, S \ {x}))

\* ------------------------------------------------------------------------
\* numpy and library collaborators
\* ------------------------------------------------------------------------
NoError == [kind |-> "none", msg |-> ""]
LinAlgError == [kind |-> "LinAlgError", msg |-> "Singular matrix"]
IndexError == [kind |-> "IndexError", msg |-> "index out of bounds"]
ValueError == [kind |-> "ValueError", msg |-> "input must be non-empty square"]

\* numpy.poly of a square matrix: the coefficients of its characteristic
\* polynomial, highest degree first; the coefficient of x^(n-k) is (-1)^k
\* times the sum of the k-by-k principal minors.  Element k+1 of the
\* sequence is Apoly[k] of the code.
poly(M) ==
    LET n == M.rows
        coef(k) ==
            LET sets == {S \in SUBSET (1..n) : Cardinality(S) = k}
                s == RSumSet([S \in sets |-> Det(Principal(M, S))], sets)
            IN  IF k % 2 = 0 THEN s ELSE RNeg(s)
    IN  [k \in 1..(n + 1) |-> coef(k - 1)]

\* numpy.poly accepts only a non-empty square matrix
PolyDefined(M) == M.rows = M.cols /\ M.rows # 0

\* numpy.linalg.inv: the inverse, or LinAlgError for a singular matrix
Singular(M) == Det(M) = Q(0)

inv(M) ==
    LET d == Det(M)
        e(i, j) == RDiv(IF (i + j) % 2 = 0 THEN Det(Minor(M, j, i))
                        ELSE RNeg(Det(Minor(M, j, i))), d)
    IN  Mat(M.rows, M.cols, [ij \in Idx(M.rows, M.cols) |-> e(ij[1], ij[2])])

\* lti.issiso
issiso(sys) == sys.inputs = 1 /\ sys.outputs = 1

\* statefbk.ctrb: [B, A B, ..., A^(n-1) B]
RECURSIVE MatPow(_, _)
MatPow(M, k) == IF k = 0 THEN eye(M.rows) ELSE MatMul(MatPow(M, k - 1), M)

RECURSIVE CtrbUpTo(_, _, _)
CtrbUpTo(A, B, k) ==
    IF k <= 0 THEN B
    ELSE hstack(CtrbUpTo(A, B, k - 1), MatMul(MatPow(A, k), B))

ctrb(A, B) == CtrbUpTo(A, B, A.rows - 1)

\* statesp.StateSpace(sys): a new system object with its own A, B and C
\* arrays; D is either shared with the source or copied.
CopyHeap(h, sys, shareD) ==
    LET h3 == h \o <<h[sys.A], h[sys.B], h[sys.C]>>
    IN  IF shareD THEN h3 ELSE Append(h3, h[sys.D])

StateSpace(h, sys, shareD) ==
    [sys EXCEPT !.A = Len(h) + 1, !.B = Len(h) + 2, !.C = Len(h) + 3,
                !.D = IF shareD THEN sys.D ELSE Len(h) + 4]

\* ------------------------------------------------------------------------
\* canonical.py
\* ------------------------------------------------------------------------
ControlNotImplemented(msg) == [kind |-> "ControlNotImplemented", msg |-> msg]

MimoMessage == "Canonical forms for MIMO systems not yet supported"

FormMessage(form) == "Canonical form '" \o form \o "' not yet implemented"

Omitted == "<omitted>"
NoForm == "<none>"

\* a default of 'modal' instead of 'reachable'
BindFormModal(formArg) == IF formArg = Omitted THEN "modal" ELSE formArg

\* def canonical_form(xsys, form='reachable')
BindForm(formArg) == IF formArg = Omitted THEN "reachable" ELSE formArg

\* a dispatcher that also sends 'bogus' to reachable_form
IsReachableOrBogus(form) == form \in {"reachable", "bogus"}

\* if form == 'reachable'
IsReachable(form) == form = "reachable"

\* return reachable_form(xsys)
PassResult(r) == r

\* zsys.B = zeros(shape(xsys.B))
NewB(xB) == zeros(shape(xB))

\* zsys.B[0, 0] = 1
StoreB(zB) == SetItem(zB, 0, 0, Q(1))

\* the row entry taken from Apoly[i] instead of Apoly[i+1]
RowEntryShifted(Apoly, i) == RDiv(RNeg(Apoly[i + 1]), Apoly[0 + 1])

\* zsys.A[0, i] = -Apoly[i+1] / Apoly[0]
RowEntry(Apoly, i) == RDiv(RNeg(Apoly[(i + 1) + 1]), Apoly[0 + 1])

\* the body of the loop over i, then the rest of the loop
RECURSIVE FillA(_, _, _, _)
FillA(zA, Apoly, i, states) ==
    IF i >= states THEN zA
    ELSE LET a1 == SetItem(zA, 0, i, RowEntry(Apoly, i))
             a2 == IF i + 1 < states THEN SetItem(a1, i + 1, i, Q(1)) ELSE a1
         IN  FillA(a2, Apoly, i + 1, states)

\* the product taken in the other order
TransformSwapped(wrz, wrx) == MatMul(inv(wrx), wrz)

\* Tzx = Wrz * inv(Wrx)
Transform(wrz, wrx) == MatMul(wrz, inv(wrx))

\* the output matrix without the inversion
OutputMatrixNoInv(xC, T) == MatMul(xC, T)

\* zsys.C = xsys.C * inv(Tzx)
OutputMatrix(xC, T) == MatMul(xC, inv(T))

\* ------------------------------------------------------------------------
\* The input family
\* ------------------------------------------------------------------------
Orders == 0..MaxOrder
Ports == 1..MaxPorts
Vals == {-MaxVal, 0, 1}

\* r-by-c integer matrices with at most two non-zero entries
Sparse2(r, c) ==
    LET P == (1..r) \X (1..c)
        m(p, x, q, y) ==
            LET e(i, j) == IF <<i, j>> = q THEN Q(y)
                           ELSE IF <<i, j>> = p THEN Q(x) ELSE Q(0)
            IN  Mat(r, c, [ij \in Idx(r, c) |-> e(ij[1], ij[2])])
    IN  {zeros(<<r, c>>)} \cup
        {m(p, x, q, y) : p \in P, x \in Vals, q \in P, y \in Vals}

\* r-by-c integer matrices with at most one non-zero entry
Sparse1(r, c) ==
    LET P == (1..r) \X (1..c)
        m(p, x) == LET e(i, j) == IF <<i, j>> = p THEN Q(x) ELSE Q(0)
                   IN  Mat(r, c, [ij \in Idx(r, c) |-> e(ij[1], ij[2])])
    IN  {zeros(<<r, c>>)} \cup {m(p, x) : p \in P, x \in Vals}

Filled(r, c, x) == Mat(r, c, [ij \in Idx(r, c) |-> Q(x)])

\* the column x, -x, x, ..., the first and last unit columns and unit rows
Alternating(n, x) == Mat(n, 1, [ij \in Idx(n, 1) |-> IF ij[1] % 2 = 1 THEN Q(x) ELSE Q(-x)])

UnitColumn(n, k) == Mat(n, 1, [ij \in Idx(n, 1) |-> IF ij[1] = k THEN Q(1) ELSE Q(0)])

InputColumns(n) ==
    {zeros(<<n, 1>>), Alternating(n, MaxVal)} \cup
    {UnitColumn(n, k) : k \in {1, n} \cap (1..n)}

UnitRow(n, k) == Mat(1, n, [ij \in Idx(1, n) |-> IF ij[2] = k THEN Q(1) ELSE Q(0)])

\* output and feed-through matrices are chosen together
OutputPairs(n) ==
    {<<UnitRow(n, k), Filled(1, 1, 0)>> : k \in {1, n} \cap (1..n)} \cup
    {<<Filled(1, n, -MaxVal), Filled(1, 1, MaxVal)>>}

System(A, B, C, D) ==
    [A |-> A, B |-> B, C |-> C, D |-> D, inputs |-> B.cols, outputs |-> C.rows]

SisoSystems ==
    UNION {{System(A, B, cd[1], cd[2]) :
              A \in Sparse2(n, n), B \in InputColumns(n),
              cd \in OutputPairs(n)} : n \in Orders}

MimoSystems ==
    UNION {{System(A, B, Filled(t[3], t[1], 1), Filled(t[3], t[2], MaxVal)) :
              A \in Sparse1(t[1], t[1]),
              B \in {Filled(t[1], t[2], 1), zeros(<<t[1], t[2]>>)}} :
           t \in {u \in Orders \X Ports \X Ports : u[2] + u[3] > 2}}

\* the two-state system with characteristic polynomial x^2 + 3x + 2
Scenario ==
    System([rows |-> 2, cols |-> 2, v |-> <<<<Q(0), Q(1)>>, <<Q(-2), Q(-3)>>>>],
           [rows |-> 2, cols |-> 1, v |-> <<<<Q(0)>>, <<Q(1)>>>>],
           [rows |-> 1, cols |-> 2, v |-> <<<<Q(1), Q(0)>>>>],
           Filled(1, 1, 0))

Systems == SisoSystems \cup MimoSystems \cup {Scenario}

Forms == {"reachable", "observable", "modal", "bogus"}

\* the calls a client can make: reachable_form(sys), canonical_form(sys) and
\* canonical_form(sys, form)
Entries ==
    {[fn |-> "reachable_form", form |-> NoForm]} \cup
    {[fn |-> "canonical_form", form |-> f] : f \in Forms \cup {Omitted}}

\* ------------------------------------------------------------------------
\* State
\* ------------------------------------------------------------------------
VARIABLES
    heap,     \* the arrays allocated so far; a reference is an index
    xsys,     \* the caller's system object: references and port counts
    pre,      \* the values of the caller's system when the call was made
    entry,    \* the call the client made
    stack,    \* the functions of canonical.py that are active
    pc,       \* the line about to run, or "done" / "raised"
    form,     \* canonical_form's parameter form
    zsys,     \* reachable_form's local zsys
    Apoly,    \* reachable_form's local Apoly
    Wrx,      \* reachable_form's local Wrx
    Wrz,      \* reachable_form's local Wrz
    Tzx,      \* reachable_form's local Tzx
    calls,    \* the collaborators called so far, in order
    err,      \* the exception that left the call
    ret       \* the value the call returned

vars == <<heap, xsys, pre, entry, stack, pc, form, zsys, Apoly, Wrx, Wrz, Tzx,
          calls, err, ret>>

None == [none |-> TRUE]

Init ==
    \E sys \in Systems, e \in Entries :
        /\ heap = <<sys.A, sys.B, sys.C, sys.D>>
        /\ xsys = [A |-> 1, B |-> 2, C |-> 3, D |-> 4, states |-> sys.A.rows,
                   inputs |-> sys.inputs, outputs |-> sys.outputs]
        /\ pre = sys
        /\ entry = e
        /\ stack = <<e.fn>>
        /\ pc = e.fn
        /\ form = NoForm
        /\ zsys = None
        /\ Apoly = None
        /\ Wrx = None
        /\ Wrz = None
        /\ Tzx = None
        /\ calls = <<>>
        /\ err = NoError
        /\ ret = None

\* ------------------------------------------------------------------------
\* Actions: one per statement group of canonical.py
\* ------------------------------------------------------------------------
Raise(e) ==
    /\ pc' = "raised"
    /\ err' = e
    /\ stack' = <<>>

\* lines 14, 36-40: bind form, then delegate or raise
CanonicalForm ==
    /\ pc = "canonical_form"
    /\ form' = BindForm(entry.form)
    /\ IF IsReachable(form')
       THEN /\ pc' = "reachable_form"
            /\ stack' = Append(stack, "reachable_form")
            /\ calls' = Append(calls, "reachable_form")
            /\ err' = err
       ELSE /\ Raise(ControlNotImplemented(FormMessage(form')))
            /\ calls' = calls
    /\ UNCHANGED <<heap, xsys, pre, entry, zsys, Apoly, Wrx, Wrz, Tzx, ret>>

\* reachable_form without its SISO check
CheckSisoSkipped ==
    /\ pc = "reachable_form"
    /\ calls' = calls
    /\ pc' = "copy"
    /\ UNCHANGED <<heap, xsys, pre, entry, stack, form, zsys, Apoly, Wrx, Wrz,
                   Tzx, err, ret>>

\* lines 60-62: the SISO check
CheckSiso ==
    /\ pc = "reachable_form"
    /\ calls' = Append(calls, "issiso")
    /\ IF ~issiso(xsys)
       THEN Raise(ControlNotImplemented(MimoMessage))
       ELSE pc' = "copy" /\ UNCHANGED <<err, stack>>
    /\ UNCHANGED <<heap, xsys, pre, entry, form, zsys, Apoly, Wrx, Wrz, Tzx, ret>>

\* line 65: zsys = StateSpace(xsys)
CopySystem ==
    /\ pc = "copy"
    /\ \E shareD \in BOOLEAN :
          /\ heap' = CopyHeap(heap, xsys, shareD)
          /\ zsys' = StateSpace(heap, xsys, shareD)
    /\ calls' = Append(calls, "StateSpace")
    /\ pc' = "B"
    /\ UNCHANGED <<xsys, pre, entry, stack, form, Apoly, Wrx, Wrz, Tzx, err, ret>>

\* the store of line 69 made into xsys.B itself
BuildBAliased ==
    /\ pc = "B"
    /\ zsys' = [zsys EXCEPT !.B = xsys.B]
    /\ IF InBounds(heap[xsys.B], 0, 0)
       THEN /\ heap' = [heap EXCEPT ![xsys.B] = StoreB(zeros(shape(@)))]
            /\ pc' = "A"
            /\ UNCHANGED <<err, stack>>
       ELSE /\ heap' = heap
            /\ Raise(IndexError)
    /\ calls' = Append(calls, "zeros")
    /\ UNCHANGED <<xsys, pre, entry, form, Apoly, Wrx, Wrz, Tzx, ret>>

\* lines 68-69: zsys.B = zeros(shape(xsys.B)); zsys.B[0, 0] = 1
BuildB ==
    /\ pc = "B"
    /\ LET zB == NewB(heap[xsys.B])
           r == Len(heap) + 1
       IN  /\ zsys' = [zsys EXCEPT !.B = r]
           /\ IF InBounds(zB, 0, 0)
              THEN /\ heap' = Append(heap, StoreB(zB))
                   /\ pc' = "A"
                   /\ UNCHANGED <<err, stack>>
              ELSE /\ heap' = Append(heap, zB)
                   /\ Raise(IndexError)
    /\ calls' = Append(calls, "zeros")
    /\ UNCHANGED <<xsys, pre, entry, form, Apoly, Wrx, Wrz, Tzx, ret>>

\* lines 70-75: zsys.A = zeros(shape(xsys.A)); Apoly = poly(xsys.A); the loop
BuildA ==
    /\ pc = "A"
    /\ LET zA == zeros(shape(heap[xsys.A]))
           r == Len(heap) + 1
       IN  /\ zsys' = [zsys EXCEPT !.A = r]
           /\ IF PolyDefined(heap[xsys.A])
              THEN /\ Apoly' = poly(heap[xsys.A])
                   /\ heap' = Append(heap, FillA(zA, Apoly', 0, xsys.states))
                   /\ pc' = "Wr"
                   /\ UNCHANGED <<err, stack>>
              ELSE /\ heap' = Append(heap, zA)
                   /\ Apoly' = Apoly
                   /\ Raise(ValueError)
    /\ calls' = calls \o <<"zeros", "poly">>
    /\ UNCHANGED <<xsys, pre, entry, form, Wrx, Wrz, Tzx, ret>>

\* lines 78-79: the two reachability matrices
ComputeWr ==
    /\ pc = "Wr"
    /\ Wrx' = ctrb(heap[xsys.A], heap[xsys.B])
    /\ Wrz' = ctrb(heap[zsys.A], heap[zsys.B])
    /\ calls' = calls \o <<"ctrb", "ctrb">>
    /\ pc' = "T"
    /\ UNCHANGED <<heap, xsys, pre, entry, stack, form, zsys, Apoly, Tzx, err, ret>>

\* an inversion that answers a singular matrix with the identity
ComputeTUnchecked ==
    /\ pc = "T"
    /\ calls' = Append(calls, "inv")
    /\ Tzx' = IF Singular(Wrx) THEN Wrz ELSE Transform(Wrz, Wrx)
    /\ pc' = "C"
    /\ UNCHANGED <<heap, xsys, pre, entry, stack, form, zsys, Apoly, Wrx, Wrz,
                   err, ret>>

\* line 82: Tzx = Wrz * inv(Wrx)
ComputeT ==
    /\ pc = "T"
    /\ calls' = Append(calls, "inv")
    /\ IF Singular(Wrx)
       THEN Raise(LinAlgError) /\ Tzx' = Tzx
       ELSE /\ Tzx' = Transform(Wrz, Wrx)
            /\ pc' = "C"
            /\ UNCHANGED <<err, stack>>
    /\ UNCHANGED <<heap, xsys, pre, entry, form, zsys, Apoly, Wrx, Wrz, ret>>

\* the result of line 85 stored in zsys.D
ComputeCIntoD ==
    /\ pc = "C"
    /\ calls' = Append(calls, "inv")
    /\ IF Singular(Tzx)
       THEN Raise(LinAlgError) /\ UNCHANGED <<heap, zsys>>
       ELSE /\ heap' = Append(heap, OutputMatrix(heap[xsys.C], Tzx))
            /\ zsys' = [zsys EXCEPT !.D = Len(heap) + 1]
            /\ pc' = "return"
            /\ UNCHANGED <<err, stack>>
    /\ UNCHANGED <<xsys, pre, entry, form, Apoly, Wrx, Wrz, Tzx, ret>>

\* line 85: zsys.C = xsys.C * inv(Tzx)
ComputeC ==
    /\ pc = "C"
    /\ calls' = Append(calls, "inv")
    /\ IF Singular(Tzx)
       THEN Raise(LinAlgError) /\ UNCHANGED <<heap, zsys>>
       ELSE /\ heap' = Append(heap, OutputMatrix(heap[xsys.C], Tzx))
            /\ zsys' = [zsys EXCEPT !.C = Len(heap) + 1]
            /\ pc' = "return"
            /\ UNCHANGED <<err, stack>>
    /\ UNCHANGED <<xsys, pre, entry, form, Apoly, Wrx, Wrz, Tzx, ret>>

\* line 87: return zsys, Tzx
Return ==
    /\ pc = "return"
    /\ ret' = [zsys |-> zsys, T |-> Tzx]
    /\ stack' = SubSeq(stack, 1, Len(stack) - 1)
    /\ pc' = IF stack' = <<>> THEN "done" ELSE "canonical_return"
    /\ UNCHANGED <<heap, xsys, pre, entry, form, zsys, Apoly, Wrx, Wrz, Tzx, calls, err>>

\* line 37: canonical_form returns what reachable_form returned
CanonicalReturn ==
    /\ pc = "canonical_return"
    /\ ret' = PassResult(ret)
    /\ stack' = <<>>
    /\ pc' = "done"
    /\ UNCHANGED <<heap, xsys, pre, entry, form, zsys, Apoly, Wrx, Wrz, Tzx, calls, err>>

Next ==
    \/ CanonicalForm
    \/ CheckSiso
    \/ CopySystem
    \/ BuildB
    \/ BuildA
    \/ ComputeWr
    \/ ComputeT
    \/ ComputeC
    \/ Return
    \/ CanonicalReturn

Spec == Init /\ [][Next]_vars

\* ------------------------------------------------------------------------
\* reachable_form as a function of the values of its argument
\* ------------------------------------------------------------------------
Failure(e) == [err |-> e, value |-> None]

ReachableFormResult(sys) ==
    IF ~(sys.inputs = 1 /\ sys.outputs = 1)
    THEN Failure(ControlNotImplemented(MimoMessage))
    ELSE IF ~InBounds(NewB(sys.B), 0, 0) THEN Failure(IndexError)
    ELSE IF ~PolyDefined(sys.A) THEN Failure(ValueError)
    ELSE LET zB == StoreB(NewB(sys.B))
             zA == FillA(zeros(shape(sys.A)), poly(sys.A), 0, sys.A.rows)
             wrx == ctrb(sys.A, sys.B)
             wrz == ctrb(zA, zB)
         IN  IF Singular(wrx) THEN Failure(LinAlgError)
             ELSE LET T == Transform(wrz, wrx)
                  IN  IF Singular(T) THEN Failure(LinAlgError)
                      ELSE [err |-> NoError,
                            value |-> [A |-> zA, B |-> zB,
                                       C |-> OutputMatrix(sys.C, T),
                                       D |-> sys.D, T |-> T]]

\* ------------------------------------------------------------------------
\* Vocabulary of the properties
\* ------------------------------------------------------------------------
Terminal == pc \in {"done", "raised"}
Returned == pc = "done"

\* reachable_form has been entered, directly or through canonical_form
Entered ==
    \/ entry.fn = "reachable_form"
    \/ Len(calls) > 0 /\ calls[1] = "reachable_form"

InitialHeap == <<pre.A, pre.B, pre.C, pre.D>>

\* the input system as the caller sees it now
Input == [A |-> heap[xsys.A], B |-> heap[xsys.B], C |-> heap[xsys.C],
          D |-> heap[xsys.D], inputs |-> xsys.inputs, outputs |-> xsys.outputs]

\* the returned pair by value
Output == [A |-> heap[ret.zsys.A], B |-> heap[ret.zsys.B],
           C |-> heap[ret.zsys.C], D |-> heap[ret.zsys.D], T |-> ret.T]

Outcome == [err |-> err, value |-> IF ret = None THEN None ELSE Output]

Order == pre.A.rows
Siso == pre.inputs = 1 /\ pre.outputs = 1
Controllable == Det(ctrb(pre.A, pre.B)) # Q(0)

\* the k-th Markov parameter C A^k B
Markov(C, A, B, k) == MatMul(MatMul(C, MatPow(A, k)), B)

FirstUnit(n) == Mat(n, 1, [ij \in Idx(n, 1) |-> IF ij[1] = 1 THEN Q(1) ELSE Q(0)])

IsZero(M) == M = zeros(shape(M))

Lit(rows) ==
    [rows |-> Len(rows), cols |-> Len(rows[1]),
     v |-> [i \in 1..Len(rows) |-> [j \in 1..Len(rows[1]) |-> Q(rows[i][j])]]]

\* ------------------------------------------------------------------------
\* Properties
\* ------------------------------------------------------------------------

\* C1: for a controllable SISO system, the system reachable_form returns has
\* the same transfer function as its argument: the same D and the same
\* Markov parameters C A^k B for k = 0 .. 2n-1.
C1_TransferFunctionPreserved ==
    (Returned /\ Siso /\ Controllable) =>
        /\ Output.D = pre.D
        /\ \A k \in 0..(2 * Order - 1) :
              Markov(Output.C, Output.A, Output.B, k) = Markov(pre.C, pre.A, pre.B, k)

C1_Witness ==
    /\ Returned /\ Siso /\ Controllable /\ Order = 2
    /\ ret.T # eye(2)
    /\ Markov(pre.C, pre.A, pre.B, 0) # Lit(<<<<0>>>>)
    /\ Markov(pre.C, pre.A, pre.B, 1) # Lit(<<<<0>>>>)

\* C2: when reachable_form succeeds on a system of order n >= 1, zsys.A is
\* the companion matrix of the characteristic polynomial p of xsys.A: row 0
\* holds -p(i+1)/p0, the subdiagonal holds 1, every other entry is 0; for
\* A = [[0,1],[-2,-3]] this is [[-3,-2],[1,0]].
C2_CompanionStructure ==
    (Returned /\ Order >= 1) =>
        LET n == Order
            p == poly(pre.A)
            zA == Output.A
        IN  /\ shape(zA) = <<n, n>>
            /\ \A i \in 0..(n - 1) : zA.v[0 + 1][i + 1] = RDiv(RNeg(p[i + 2]), p[1])
            /\ \A i \in 0..(n - 2) : zA.v[(i + 1) + 1][i + 1] = Q(1)
            /\ \A r \in 2..n : \A c \in 1..n : c # r - 1 => zA.v[r][c] = Q(0)
            /\ pre.A = Lit(<<<<0, 1>>, <<-2, -3>>>>) => zA = Lit(<<<<-3, -2>>, <<1, 0>>>>)

C2_Witness ==
    /\ Returned
    /\ pre = Scenario
    /\ Output.A = Lit(<<<<-3, -2>>, <<1, 0>>>>)
    /\ Output.B = Lit(<<<<1>>, <<0>>>>)

\* C3: reachable_form on a system with more than one input or output raises
\* ControlNotImplemented before anything else happens: nothing is copied or
\* computed, the argument is unchanged and nothing is returned.
C3_MimoRejectedFirst ==
    (Entered /\ ~Siso /\ pc # "reachable_form") =>
        /\ pc = "raised"
        /\ err = ControlNotImplemented(MimoMessage)
        /\ calls = IF entry.fn = "canonical_form"
                   THEN <<"reachable_form", "issiso">> ELSE <<"issiso">>
        /\ heap = InitialHeap
        /\ Input = pre
        /\ zsys = None /\ Apoly = None /\ Wrx = None /\ Wrz = None /\ Tzx = None
        /\ ret = None

C3_Witness ==
    /\ pc = "raised" /\ entry.fn = "reachable_form"
    /\ pre.inputs = 2 /\ pre.outputs = 1 /\ Order = 2
    /\ err.kind = "ControlNotImplemented"

\* C4: canonical_form with a form other than 'reachable' raises
\* ControlNotImplemented with the form's name in the message, for SISO and
\* MIMO systems alike, without calling reachable_form and without effect.
C4_OtherFormsRejected ==
    (entry.fn = "canonical_form" /\ entry.form \notin {"reachable", Omitted}
        /\ pc # "canonical_form") =>
        /\ pc = "raised"
        /\ err.kind = "ControlNotImplemented"
        /\ entry.form = "observable" =>
              err.msg = "Canonical form 'observable' not yet implemented"
        /\ entry.form = "modal" =>
              err.msg = "Canonical form 'modal' not yet implemented"
        /\ entry.form = "bogus" =>
              err.msg = "Canonical form 'bogus' not yet implemented"
        /\ ~Entered
        /\ calls = <<>>
        /\ heap = InitialHeap
        /\ Input = pre
        /\ zsys = None /\ ret = None

C4_Witness ==
    /\ pc = "raised" /\ entry.fn = "canonical_form" /\ entry.form = "bogus"
    /\ Siso /\ Controllable /\ Order = 2
    /\ err.msg = "Canonical form 'bogus' not yet implemented"

\* C5: a system whose B is zero never gets a (zsys, T) pair from
\* reachable_form; for a SISO system of order n >= 1 (where the zero B makes
\* the reachability matrix singular) the call ends in the inversion's
\* singular-matrix error.
C5_ZeroInputMatrixFails ==
    IsZero(pre.B) =>
        /\ ret = None
        /\ pc \notin {"C", "return", "canonical_return", "done"}
        /\ (Entered /\ Siso /\ Order >= 1 /\ Terminal) => err = LinAlgError

C5_Witness ==
    /\ pc = "raised" /\ err = LinAlgError
    /\ IsZero(pre.B) /\ ~IsZero(pre.A) /\ Order = 2
    /\ Wrx = zeros(<<2, 2>>)

\* C6: reachable_form never changes its argument, wherever the call stops,
\* and the returned zsys shares no A, B or C array with it.
C6_InputNotMutated ==
    /\ Input = pre
    /\ xsys = [A |-> 1, B |-> 2, C |-> 3, D |-> 4, states |-> Order,
               inputs |-> pre.inputs, outputs |-> pre.outputs]
    /\ ret # None =>
          {ret.zsys.A, ret.zsys.B, ret.zsys.C} \cap {xsys.A, xsys.B, xsys.C, xsys.D} = {}

C6_Witness ==
    /\ Returned /\ Order = 2
    /\ ret.zsys.D = xsys.D
    /\ Output.A # pre.A /\ Output.B # pre.B /\ Output.C # pre.C

\* C7: whenever reachable_form returns, zsys.D equals xsys.D and zsys has
\* the input count, output count and order of xsys; from the copy on, only
\* the A, B and C fields of zsys are written.
C7_FeedthroughAndPortsKept ==
    /\ zsys # None =>
          /\ heap[zsys.D] = pre.D
          /\ zsys.D \in {xsys.D, Len(InitialHeap) + 4}
          /\ zsys.inputs = xsys.inputs
          /\ zsys.outputs = xsys.outputs
          /\ zsys.states = xsys.states
    /\ Returned =>
          /\ Output.D = pre.D
          /\ ret.zsys.inputs = pre.inputs
          /\ ret.zsys.outputs = pre.outputs
          /\ ret.zsys.states = Order
          /\ shape(Output.A) = <<Order, Order>>
          /\ shape(Output.B) = <<Order, pre.inputs>>
          /\ shape(Output.C) = <<pre.outputs, Order>>

C7_Witness ==
    /\ Returned /\ Order = 2
    /\ pre.D = Lit(<<<<MaxVal>>>>)
    /\ ret.zsys.D # xsys.D
    /\ Output.C # pre.C

\* C8: for a controllable SISO system, the returned T is Wrz * inverse(Wrx),
\* is invertible, and T A inverse(T) = zsys.A, T B = zsys.B and
\* zsys.C = C inverse(T).
C8_CoordinateChange ==
    (Returned /\ Siso /\ Controllable) =>
        LET T == ret.T
        IN  /\ T = MatMul(ctrb(Output.A, Output.B), inv(ctrb(pre.A, pre.B)))
            /\ Det(T) # Q(0)
            /\ MatMul(MatMul(T, pre.A), inv(T)) = Output.A
            /\ MatMul(T, pre.B) = Output.B
            /\ Output.C = MatMul(pre.C, inv(T))

C8_Witness ==
    /\ Returned /\ Siso /\ Controllable /\ Order = 2
    /\ \E i \in 1..2 : \E j \in 1..2 : ret.T.v[i][j][2] # 1
    /\ ret.T.v[1][2] # Q(0) /\ ret.T.v[2][1] # Q(0)

\* C9: for a SISO system of any order n, n = 0 included, zsys.B is built as
\* the n-by-1 column with 1 in the first row and 0 elsewhere, of the shape
\* of xsys.B.
C9_TargetBForEveryOrder ==
    (Entered /\ Siso /\ pc \notin {"canonical_form", "reachable_form", "copy", "B"}) =>
        /\ err.kind # "IndexError"
        /\ heap[zsys.B] = FirstUnit(Order)
        /\ shape(heap[zsys.B]) = shape(pre.B)

\* C10: canonical_form(sys, 'reachable') and canonical_form(sys) end as
\* reachable_form(sys) ends, with the same pair or the same error, and the
\* dispatcher does nothing else.
C10_DispatchEqualsReachableForm ==
    /\ (Terminal /\ (entry.fn = "reachable_form" \/ entry.form \in {"reachable", Omitted})) =>
          Outcome = ReachableFormResult(pre)
    /\ (entry.fn = "canonical_form" /\ pc = "reachable_form") =>
          /\ heap = InitialHeap
          /\ calls = <<"reachable_form">>
          /\ zsys = None /\ Apoly = None /\ Wrx = None /\ Wrz = None /\ Tzx = None
          /\ err = NoError /\ ret = None
    /\ (entry.fn = "canonical_form" /\ entry.form \in {"reachable", Omitted}
          /\ pc # "canonical_form") => Entered

C10_Witness ==
    /\ Returned /\ entry.fn = "canonical_form" /\ entry.form = Omitted
    /\ Order = 2 /\ pre.D = Lit(<<<<MaxVal>>>>)
    /\ Outcome = ReachableFormResult(pre)

====
